---- MODULE Spec2Model ----
(***************************************************************************)
(* Model of DrawingApp (baseline/main.py): a polygon sketching tool with   *)
(* snapshot-based undo/redo.  The state is the object's fields; there is   *)
(* one action per Tk event handler / button command.  Python lists are     *)
(* modelled as sequences, a point (x, y) as the tuple <<x, y>>, a snapshot *)
(* dict as a record with the fields polygons and current_poly.  The top of *)
(* a stack is the last element of its sequence (list.append / list.pop).   *)
(***************************************************************************)
EXTENDS Integers, Sequences, FiniteSets, TLC

VARIABLES
    polygons,      \* self.polygons: finished shapes, each a sequence of points
    current_poly,  \* self.current_poly: the shape being drawn
    mouse_pos,     \* self.mouse_pos: last pointer position
    undo_stack,    \* self.undo_stack: snapshots of past states
    redo_stack,    \* self.redo_stack: snapshots reachable by redo
    canvas,        \* the items on self.canvas, in creation order
    shared,        \* which of the lists above are the same list object
    handler,       \* the handler that ran last ("init" after construction)
    before,        \* the fields as they were when that handler was entered
    saves          \* number of save_state() calls made since the initial state

vars == <<polygons, current_poly, mouse_pos, undo_stack, redo_stack, canvas,
          shared, handler, before, saves>>

----------------------------------------------------------------------------
(* Bounds of the model *)

\* save_state() is called at most MaxSaves times in a behaviour
MaxSaves == 4

\* the mutable fields of the object, as one record
Self == [polygons |-> polygons, current_poly |-> current_poly,
         mouse_pos |-> mouse_pos, undo_stack |-> undo_stack,
         redo_stack |-> redo_stack, canvas |-> canvas]

\* pointer positions delivered with <Button-1> and <Double-Button-1> events
ClickPoints == {<<10, 10>>, <<20, 10>>, <<20, 20>>}

\* pointer positions delivered with <Motion> events
MovePoints == {<<15, 15>>}

----------------------------------------------------------------------------
(* Helpers for Python list operations *)

\* l[:]  -- a new list with the same elements
copy_list(l) == [i \in 1..Len(l) |-> l[i]]

\* [p[:] for p in ps]
copy_polygons(ps) == [i \in 1..Len(ps) |-> copy_list(ps[i])]

\* l[-1]
last(l) == l[Len(l)]

\* l after l.pop()
popped(l) == SubSeq(l, 1, Len(l) - 1)

----------------------------------------------------------------------------
(* redraw: the canvas is deleted and rebuilt from the fields.  An item is   *)
(* a record: item is the kind of canvas item ("line" for create_line, an   *)
(* open polyline through coords), fill its colour, dash whether dashed.    *)

RECURSIVE finished_lines(_)
finished_lines(ps) ==
    IF ps = <<>> THEN <<>>
    ELSE LET poly == Head(ps)
             rest == finished_lines(Tail(ps))
         IN  IF Len(poly) > 1
             THEN <<[item |-> "line", coords |-> poly, fill |-> "black",
                     dash |-> FALSE]>> \o rest
             ELSE rest

\* the rubber band drawn from the first pending point instead of the last
current_lines_from_first(self) ==
    IF Len(self.current_poly) > 0
    THEN (IF Len(self.current_poly) > 1
          THEN <<[item |-> "line", coords |-> self.current_poly, fill |-> "red",
                  dash |-> FALSE]>>
          ELSE <<>>)
         \o <<[item |-> "line",
               coords |-> <<self.current_poly[1], self.mouse_pos>>,
               fill |-> "gray", dash |-> TRUE]>>
    ELSE <<>>

current_lines(self) ==
    IF Len(self.current_poly) > 0
    THEN (IF Len(self.current_poly) > 1
          THEN <<[item |-> "line", coords |-> self.current_poly, fill |-> "red",
                  dash |-> FALSE]>>
          ELSE <<>>)
         \o <<[item |-> "line",
               coords |-> <<last(self.current_poly), self.mouse_pos>>,
               fill |-> "gray", dash |-> TRUE]>>
    ELSE <<>>

redraw(self) ==
    [self EXCEPT !.canvas = finished_lines(self.polygons) \o current_lines(self)]

----------------------------------------------------------------------------
(* The methods, as functions from the object's state to its next state *)

\* a snapshot dict that leaves the shape under construction out
snapshot_drops_pending(self) ==
    [polygons |-> copy_polygons(self.polygons),
     current_poly |-> <<>>]

\* the dict built at lines 46-49, 62-65 and 75-78
snapshot(self) ==
    [polygons |-> copy_polygons(self.polygons),
     current_poly |-> copy_list(self.current_poly)]

\* save_state that forgets to clear the redo history
save_state_keeps_redo(self) ==
    [self EXCEPT !.undo_stack = Append(@, snapshot(self))]

save_state(self) ==
    [self EXCEPT !.undo_stack = Append(@, snapshot(self)),
                 !.redo_stack = <<>>]

\* restore_state that forgets the shape under construction
restore_state_polygons_only(self, state) ==
    redraw([self EXCEPT !.polygons = copy_polygons(state.polygons)])

restore_state(self, state) ==
    redraw([self EXCEPT !.polygons = copy_polygons(state.polygons),
                        !.current_poly = copy_list(state.current_poly)])

\* clearall that resets the finished shapes only
clearall_keeps_pending(self) ==
    redraw([save_state(self) EXCEPT !.canvas = <<>>,
                                    !.polygons = <<>>])

clearall(self) ==
    redraw([save_state(self) EXCEPT !.canvas = <<>>,
                                    !.polygons = <<>>,
                                    !.current_poly = <<>>])

\* undo that puts the restored snapshot, not the live state, on the redo stack
undo_redo_gets_previous(self) ==
    IF Len(self.undo_stack) > 0
    THEN LET previous_state == last(self.undo_stack)
         IN  restore_state([self EXCEPT !.redo_stack = Append(@, previous_state),
                                        !.undo_stack = popped(@)],
                           previous_state)
    ELSE self

\* undo that snapshots the live state to the redo stack before testing the
\* undo stack
undo_push_before_check(self) ==
    LET current_state == snapshot(self)
        pushed == [self EXCEPT !.redo_stack = Append(@, current_state)]
    IN  IF Len(self.undo_stack) > 0
        THEN restore_state([pushed EXCEPT !.undo_stack = popped(@)],
                           last(self.undo_stack))
        ELSE pushed

\* undo that reads the top of the undo stack without removing it
undo_no_pop(self) ==
    IF Len(self.undo_stack) > 0
    THEN LET current_state == snapshot(self)
             previous_state == last(self.undo_stack)
         IN  restore_state([self EXCEPT !.redo_stack = Append(@, current_state)],
                           previous_state)
    ELSE self

undo(self) ==
    IF Len(self.undo_stack) > 0
    THEN LET current_state == snapshot(self)
             previous_state == last(self.undo_stack)
         IN  restore_state([self EXCEPT !.redo_stack = Append(@, current_state),
                                        !.undo_stack = popped(@)],
                           previous_state)
    ELSE self

\* redo that does not save the live state to the undo stack
redo_no_push(self) ==
    IF Len(self.redo_stack) > 0
    THEN LET next_state == last(self.redo_stack)
         IN  restore_state([self EXCEPT !.redo_stack = popped(@)], next_state)
    ELSE self

\* redo that reads the top of the redo stack without removing it
redo_no_pop(self) ==
    IF Len(self.redo_stack) > 0
    THEN LET current_state == snapshot(self)
             next_state == last(self.redo_stack)
         IN  restore_state([self EXCEPT !.undo_stack = Append(@, current_state)],
                           next_state)
    ELSE self

redo(self) ==
    IF Len(self.redo_stack) > 0
    THEN LET current_state == snapshot(self)
             next_state == last(self.redo_stack)
         IN  restore_state([self EXCEPT !.undo_stack = Append(@, current_state),
                                        !.redo_stack = popped(@)],
                           next_state)
    ELSE self

\* on_click that saves the state after modifying it
on_click_save_after(self, event) ==
    redraw(save_state([self EXCEPT !.current_poly = Append(@, event)]))

\* on_click that inserts the new point in front of the pending points
on_click_prepend(self, event) ==
    redraw([save_state(self) EXCEPT !.current_poly = <<event>> \o @])

on_click(self, event) ==
    redraw([save_state(self) EXCEPT !.current_poly = Append(@, event)])

\* on_move that takes a snapshot like the other handlers
on_move_saves(self, event) ==
    redraw([save_state(self) EXCEPT !.mouse_pos = event])

on_move(self, event) ==
    redraw([self EXCEPT !.mouse_pos = event])

\* on_finish that inserts the new shape in front of the finished shapes
on_finish_front(self, event) ==
    IF Len(self.current_poly) > 2
    THEN LET saved == save_state(self)
         IN  redraw([saved EXCEPT !.polygons = <<saved.current_poly>> \o @,
                                  !.current_poly = <<>>])
    ELSE self

\* on_finish with the threshold off by one
on_finish_two_points(self, event) ==
    IF Len(self.current_poly) > 1
    THEN LET saved == save_state(self)
         IN  redraw([saved EXCEPT !.polygons = Append(@, saved.current_poly),
                                  !.current_poly = <<>>])
    ELSE self

\* on_finish that accepts any non-empty pending sequence
on_finish_nonempty(self, event) ==
    IF Len(self.current_poly) > 0
    THEN LET saved == save_state(self)
         IN  redraw([saved EXCEPT !.polygons = Append(@, saved.current_poly),
                                  !.current_poly = <<>>])
    ELSE self

on_finish(self, event) ==
    IF Len(self.current_poly) > 2
    THEN LET saved == save_state(self)
         IN  redraw([saved EXCEPT !.polygons = Append(@, saved.current_poly),
                                  !.current_poly = <<>>])
    ELSE self

----------------------------------------------------------------------------
(* Object identity.  The fields above hold the values of the lists; the    *)
(* variable shared holds which of these lists are one and the same list    *)
(* object.  A list is named by its place:                                  *)
(*   [in |-> "live", at |-> 0, list |-> "polygons", j |-> 0]  self.polygons*)
(*   [in |-> "live", at |-> 0, list |-> "poly", j |-> n]   self.polygons[n]*)
(*   [in |-> "live", at |-> 0, list |-> "current", j |-> 0]                *)
(*                                                        self.current_poly*)
(*   [in |-> "undo", at |-> i, ...]  the same three kinds of list, held by *)
(*   [in |-> "redo", at |-> i, ...]  the snapshot dict i of that stack     *)
(* and shared is the set of the pairs {a, b} of two different places that  *)
(* hold the same object.  A copy (l[:], a list comprehension, []) is a new *)
(* object, sharing with nothing; storing a list without copying it shares  *)
(* it.  The stacks only grow and shrink at their top and self.polygons     *)
(* only grows at its end, so a list keeps its place until it is dropped.   *)

place(in, at, list, j) == [in |-> in, at |-> at, list |-> list, j |-> j]

live_polygons == place("live", 0, "polygons", 0)

live_poly(j) == place("live", 0, "poly", j)

live_current == place("live", 0, "current", 0)

\* A after the lists held in in (the live state, or the snapshots of a stack
\* from place from upwards) were dropped or replaced by new objects
without(A, in, from) ==
    {pair \in A : \A a \in pair : ~(a.in = in /\ a.at >= from)}

\* A after the object at place e was also stored at the (new) place n
stored_at(A, n, e) ==
    A \cup {{n, e}} \cup {{n, x} : x \in {y \in UNION A : {y, e} \in A}}

\* a snapshot dict that stores self.current_poly itself instead of a copy
snapshot_refs_shares_current(A, in, at) ==
    stored_at(A, place(in, at, "current", 0), live_current)

\* the dict built at lines 46-49, 62-65 and 75-78 and put on the stack in at
\* place at: each of its lists is a copy, so nothing new is shared
snapshot_refs(A, in, at) == A

\* line 50 puts the dict on the undo stack, line 51 drops the redo snapshots
save_state_refs(self, A) ==
    without(snapshot_refs(A, "undo", Len(self.undo_stack) + 1),
            "redo", 1)

\* lines 55-56: the live lists are replaced by copies of the lists of state
restore_state_refs(A) == without(A, "live", 0)

\* lines 39-40: the live lists are replaced by two new empty lists
clearall_refs(self, A) ==
    without(save_state_refs(self, A), "live", 0)

\* lines 62-70: a copy of the live state goes on the redo stack, the top of
\* the undo stack is popped, restored from and dropped
undo_refs(self, A) ==
    IF Len(self.undo_stack) > 0
    THEN LET pushed == snapshot_refs(A, "redo", Len(self.redo_stack) + 1)
         IN  without(restore_state_refs(pushed), "undo", Len(self.undo_stack))
    ELSE A

\* lines 75-83, the same with the stacks exchanged
redo_refs(self, A) ==
    IF Len(self.redo_stack) > 0
    THEN LET pushed == snapshot_refs(A, "undo", Len(self.undo_stack) + 1)
         IN  without(restore_state_refs(pushed), "redo", Len(self.redo_stack))
    ELSE A

\* line 87 appends in place: self.current_poly stays the same object
on_click_refs(self, A) == save_state_refs(self, A)

\* line 97 appends the object self.current_poly itself to the object
\* self.polygons: the object moves from the place of current_poly to the
\* new last place of polygons, and a snapshot whose polygons list is the
\* object self.polygons gets it as its new last polygon too; line 98 makes
\* self.current_poly a new empty list
on_finish_refs(self, A) ==
    IF Len(self.current_poly) > 2
    THEN LET saved == save_state_refs(self, A)
             new == live_poly(Len(self.polygons) + 1)
             move(a) == IF a = live_current THEN new ELSE a
             moved == {{move(a) : a \in pair} : pair \in saved}
             also == {place("undo", i, "poly", Len(self.undo_stack[i].polygons) + 1) :
                         i \in {k \in 1..Len(self.undo_stack) :
                                   {place("undo", k, "polygons", 0), live_polygons}
                                       \in saved}}
         IN  (moved \cup {{a, new} : a \in also}
                    \cup {{a, b} : a, b \in also}) \ {{a} : a \in also}
    ELSE A

(* In-place appends reach every name of the list object. *)

\* the polygons vals of the live state or of the snapshot at of a stack, with
\* pt appended to those that are the object self.current_poly
append_where(vals, in, at, A, pt) ==
    [j \in 1..Len(vals) |->
        IF {place(in, at, "poly", j), live_current} \in A
        THEN Append(vals[j], pt)
        ELSE vals[j]]

\* line 87, seen through the other names of the object self.current_poly:
\* s is the state on_click computed, A the sharing after its save_state
\* (which has emptied the redo stack)
shared_append(s, A, pt) ==
    IF A = {} THEN s
    ELSE [s EXCEPT
            !.polygons = append_where(@, "live", 0, A, pt),
            !.undo_stack =
                [i \in 1..Len(@) |->
                    [polygons |->
                         append_where(@[i].polygons, "undo", i, A, pt),
                     current_poly |->
                         IF {place("undo", i, "current", 0), live_current} \in A
                         THEN Append(@[i].current_poly, pt)
                         ELSE @[i].current_poly]]]

\* line 97, seen through the other names of the object self.polygons: the
\* snapshots whose polygons list is that object get the new shape too
shared_extend(s, A, poly) ==
    IF A = {} THEN s
    ELSE [s EXCEPT
            !.undo_stack =
                [i \in 1..Len(@) |->
                    IF {place("undo", i, "polygons", 0), live_polygons} \in A
                    THEN [@[i] EXCEPT !.polygons = Append(@, poly)]
                    ELSE @[i]]]

----------------------------------------------------------------------------
(* The state machine *)

\* the fields take the values of the record s
Becomes(s) ==
    /\ polygons' = s.polygons
    /\ current_poly' = s.current_poly
    /\ mouse_pos' = s.mouse_pos
    /\ undo_stack' = s.undo_stack
    /\ redo_stack' = s.redo_stack
    /\ canvas' = s.canvas

\* the fields have the values of the record s
Holds(s) ==
    /\ polygons = s.polygons
    /\ current_poly = s.current_poly
    /\ mouse_pos = s.mouse_pos
    /\ undo_stack = s.undo_stack
    /\ redo_stack = s.redo_stack
    /\ canvas = s.canvas

\* __init__ with the initial save_state() call of line 32 enabled
InitSelf_saved ==
    [polygons |-> <<>>, current_poly |-> <<>>, mouse_pos |-> <<0, 0>>,
     undo_stack |-> <<[polygons |-> <<>>, current_poly |-> <<>>]>>, redo_stack |-> <<>>, canvas |-> <<>>]

\* the fields as __init__ leaves them
InitSelf ==
    [polygons |-> <<>>, current_poly |-> <<>>, mouse_pos |-> <<0, 0>>,
     undo_stack |-> <<>>, redo_stack |-> <<>>, canvas |-> <<>>]

\* __init__ creates two empty lists (lines 9-10): nothing is shared
InitRefs == {}

\* the fields after the user has clicked the three corners of a triangle
TriangleSelf ==
    on_click(on_click(on_click(InitSelf, <<10, 10>>), <<20, 10>>), <<20, 20>>)

\* the fields after the user has then finished the triangle with a double click
ShapeSelf == on_finish(TriangleSelf, <<20, 20>>)

\* the sharing after these three clicks and after the double click
TriangleRefs ==
    LET one == on_click(InitSelf, <<10, 10>>)
        two == on_click(one, <<20, 10>>)
    IN  on_click_refs(two, on_click_refs(one, on_click_refs(InitSelf, InitRefs)))

ShapeRefs == on_finish_refs(TriangleSelf, TriangleRefs)

Init ==
    /\ Holds(InitSelf)
    /\ shared = InitRefs
    /\ handler = "init"
    /\ before = InitSelf
    /\ saves = 0

\* a session that continues after the first triangle was finished
InitShape ==
    /\ Holds(ShapeSelf)
    /\ shared = ShapeRefs
    /\ handler = "on_finish"
    /\ before = TriangleSelf
    /\ saves = 0

\* <Button-1>
OnClickAt(event) ==
    /\ saves < MaxSaves
    /\ Becomes(shared_append(on_click(Self, event),
                             save_state_refs(Self, shared), event))
    /\ shared' = on_click_refs(Self, shared)
    /\ handler' = "on_click"
    /\ before' = Self
    /\ saves' = saves + 1

OnClick == \E event \in ClickPoints : OnClickAt(event)

\* <Motion>
OnMove ==
    \E event \in MovePoints :
        /\ Becomes(on_move(Self, event))
        /\ UNCHANGED shared
        /\ handler' = "on_move"
        /\ before' = Self
        /\ UNCHANGED saves

\* <Double-Button-1>
OnFinish ==
    \E event \in ClickPoints :
        /\ Len(current_poly) > 2 => saves < MaxSaves
        /\ Becomes(shared_extend(on_finish(Self, event),
                                 save_state_refs(Self, shared), current_poly))
        /\ shared' = on_finish_refs(Self, shared)
        /\ handler' = "on_finish"
        /\ before' = Self
        /\ saves' = IF Len(current_poly) > 2 THEN saves + 1 ELSE saves

\* the "Undo" button
Undo ==
    /\ Becomes(undo(Self))
    /\ shared' = undo_refs(Self, shared)
    /\ handler' = "undo"
    /\ before' = Self
    /\ UNCHANGED saves

\* the "Redo" button
Redo ==
    /\ Becomes(redo(Self))
    /\ shared' = redo_refs(Self, shared)
    /\ handler' = "redo"
    /\ before' = Self
    /\ UNCHANGED saves

\* the "Clear all" button
ClearAll ==
    /\ saves < MaxSaves
    /\ Becomes(clearall(Self))
    /\ shared' = clearall_refs(Self, shared)
    /\ handler' = "clearall"
    /\ before' = Self
    /\ saves' = saves + 1

Next == OnClick \/ OnMove \/ OnFinish \/ Undo \/ Redo \/ ClearAll

Spec == Init /\ [][Next]_vars

SpecShape == InitShape /\ [][Next]_vars

----------------------------------------------------------------------------
(* Vocabulary of the properties *)

\* the pair (shapes, pending) of a state of the fields
Live(s) == [polygons |-> s.polygons, current_poly |-> s.current_poly]

\* the blank sketch
Blank == [polygons |-> <<>>, current_poly |-> <<>>]

\* the last handler took a snapshot and changed the sketch: addPoint, clearAll,
\* or a finishShape entered with more than 2 pending points
Mutated ==
    \/ handler = "on_click"
    \/ handler = "clearall"
    \/ handler = "on_finish" /\ Len(before.current_poly) > 2

\* the fields with the roles of the two stacks exchanged
swap(s) == [s EXCEPT !.undo_stack = s.redo_stack, !.redo_stack = s.undo_stack]

----------------------------------------------------------------------------
(* Properties *)

\* C1: in the state right after an effective mutating action (on_click,
\* clearall, or on_finish entered with more than 2 pending points), undo()
\* yields exactly the (shapes, pending) the fields had when that action began.
UndoRestoresPreAction ==
    Mutated => Live(undo(Self)) = Live(before)

\* C1 witness: a finishing double click has just turned three pending points
\* into a shape, and undo() from here gives back the empty shape list with the
\* three pending points.
UndoRestoresPreActionReached ==
    /\ handler = "on_finish"
    /\ Len(before.current_poly) > 2
    /\ Live(Self) # Live(before)
    /\ Live(undo(Self)) = Live(before)

\* C2: in the state right after an undo() that found a non-empty undo stack,
\* redo() yields exactly the (shapes, pending) the fields had before that undo().
RedoRestoresPreUndo ==
    handler = "undo" /\ before.undo_stack # <<>>
        => Live(redo(Self)) = Live(before)

\* C2 witness: an undo() has just reverted the finishing of a shape; redo()
\* from here gives the finished shape back.
RedoRestoresPreUndoReached ==
    /\ handler = "undo"
    /\ before.undo_stack # <<>>
    /\ before.polygons # <<>>
    /\ polygons = <<>>
    /\ Live(redo(Self)) = Live(before)

FinishCreatesShape ==
    handler = "on_finish" /\ Len(before.current_poly) >= 3
        => /\ Len(polygons) = Len(before.polygons) + 1
           /\ \A i \in 1..Len(before.polygons) : polygons[i] = before.polygons[i]
           /\ Len(last(polygons)) = Len(before.current_poly)
           /\ \A k \in 1..Len(before.current_poly) :
                  last(polygons)[k] = before.current_poly[k]
           /\ current_poly = <<>>
           /\ Len(undo_stack) = Len(before.undo_stack) + 1
           /\ popped(undo_stack) = before.undo_stack
           /\ last(undo_stack) = Live(before)

\* C4 witness: a second shape, different from the first one, has just been
\* finished behind the first.
FinishCreatesShapeReached ==
    /\ handler = "on_finish"
    /\ Len(before.current_poly) >= 3
    /\ Len(before.polygons) = 1
    /\ Len(polygons) = 2
    /\ polygons[2] # polygons[1]
    /\ polygons[2][1] # polygons[2][3]

\* C5: on_finish entered with 0, 1 or 2 pending points changes nothing: no
\* shape is created, and shapes, pending, undo stack and redo stack (and the
\* rest of the fields) are as they were.
FinishBelowThresholdIsNoOp ==
    handler = "on_finish" /\ Len(before.current_poly) <= 2
        => /\ polygons = before.polygons
           /\ current_poly = before.current_poly
           /\ undo_stack = before.undo_stack
           /\ redo_stack = before.redo_stack
           /\ Self = before

\* C5 witness: a double click arrived with exactly 2 pending points while
\* both stacks were non-empty.
FinishBelowThresholdIsNoOpReached ==
    /\ handler = "on_finish"
    /\ Len(before.current_poly) = 2
    /\ before.undo_stack # <<>>
    /\ before.redo_stack # <<>>
    /\ redo_stack = before.redo_stack

\* C6: undo() entered with an empty undo stack, and redo() entered with an
\* empty redo stack, leave every field as it was.
EmptyStackIsNoOp ==
    /\ handler = "undo" /\ before.undo_stack = <<>> => Self = before
    /\ handler = "redo" /\ before.redo_stack = <<>> => Self = before

\* C6 witness: undo() has just run on an empty undo stack while the redo
\* stack held snapshots, and every field is as it was.
EmptyStackIsNoOpReached ==
    /\ handler = "undo"
    /\ before.undo_stack = <<>>
    /\ before.redo_stack # <<>>
    /\ Self = before

\* C7: in every reachable state and for every point p, on_click(p) can run,
\* pushes exactly one snapshot equal to the (shapes, pending) at entry onto
\* the undo stack, appends p behind the pending points, which keep their
\* order, and leaves the shapes unchanged.
ClickAppendsPoint ==
    \A p \in ClickPoints :
        LET after == on_click(Self, p) IN
        /\ saves < MaxSaves => ENABLED OnClickAt(p)
        /\ Len(after.undo_stack) = Len(undo_stack) + 1
        /\ popped(after.undo_stack) = undo_stack
        /\ last(after.undo_stack) = Live(Self)
        /\ Len(after.current_poly) = Len(current_poly) + 1
        /\ \A k \in 1..Len(current_poly) : after.current_poly[k] = current_poly[k]
        /\ last(after.current_poly) = p
        /\ after.polygons = polygons

\* C7 witness: a click has just added a third point, different from the
\* first, behind two pending points, with earlier snapshots on the undo stack.
ClickAppendsPointReached ==
    /\ handler = "on_click"
    /\ Len(before.current_poly) = 2
    /\ before.undo_stack # <<>>
    /\ polygons = before.polygons
    /\ Len(current_poly) = 3
    /\ SubSeq(current_poly, 1, 2) = before.current_poly
    /\ last(current_poly) # current_poly[1]
    /\ last(undo_stack) = Live(before)

\* C8: undo() entered with a non-empty undo stack makes (shapes, pending) the
\* former top snapshot of the undo stack, removes exactly that entry from the
\* undo stack, and pushes exactly one entry, the former (shapes, pending), on
\* top of the redo stack; the entries below stay as they were.
UndoPopsAndPushes ==
    handler = "undo" /\ before.undo_stack # <<>>
        => /\ Live(Self) = last(before.undo_stack)
           /\ Len(undo_stack) = Len(before.undo_stack) - 1
           /\ \A i \in 1..Len(undo_stack) : undo_stack[i] = before.undo_stack[i]
           /\ Len(redo_stack) = Len(before.redo_stack) + 1
           /\ \A i \in 1..Len(before.redo_stack) : redo_stack[i] = before.redo_stack[i]
           /\ last(redo_stack) = Live(before)

\* C8 witness: an undo() has just run with at least two entries on the undo
\* stack and one on the redo stack, and it changed the sketch.
UndoPopsAndPushesReached ==
    /\ handler = "undo"
    /\ Len(before.undo_stack) >= 2
    /\ before.redo_stack # <<>>
    /\ Live(Self) # Live(before)
    /\ Len(redo_stack) >= 2

\* C9: in every reachable state redo() gives the same fields as exchanging
\* the two stacks, running undo(), and exchanging them back; with a non-empty
\* redo stack that is: restore its top, pop it, push the former (shapes,
\* pending) onto the undo stack.
RedoMirrorsUndo ==
    /\ redo(Self) = swap(undo(swap(Self)))
    /\ redo_stack # <<>> =>
           /\ Live(redo(Self)) = last(redo_stack)
           /\ redo(Self).redo_stack = popped(redo_stack)
           /\ redo(Self).undo_stack = Append(undo_stack, Live(Self))

\* C9 witness: a redo() has just run with both stacks non-empty, changed the
\* sketch, and produced what the mirrored undo() produces.
RedoMirrorsUndoReached ==
    /\ handler = "redo"
    /\ before.redo_stack # <<>>
    /\ before.undo_stack # <<>>
    /\ Live(Self) # Live(before)
    /\ Self = swap(undo(swap(before)))

Triangle == <<<<10, 10>>, <<20, 10>>, <<20, 20>>>>

\* C11: from the initial empty state, addPoint(10,10), addPoint(20,10),
\* addPoint(20,20), finishShape() gives shapes = [triangle] and pending = [];
\* a following undo() gives shapes = [] and pending = triangle; a following
\* redo() gives the finalized state again.
DocumentedTrace ==
    undo_stack = <<>> /\ redo_stack = <<>> /\ Live(Self) = Blank
        => LET finished ==
                   on_finish(on_click(on_click(on_click(Self, <<10, 10>>),
                                               <<20, 10>>),
                                      <<20, 20>>),
                             <<20, 20>>)
               undone == undo(finished)
               redone == redo(undone)
           IN  /\ Live(finished) = [polygons |-> <<Triangle>>, current_poly |-> <<>>]
               /\ Live(undone) = [polygons |-> <<>>, current_poly |-> Triangle]
               /\ Live(redone) = [polygons |-> <<Triangle>>, current_poly |-> <<>>]

\* C11 witness: the six steps of the example have run as handlers: four
\* snapshots were taken, the undo stack holds the blank sketch and the three
\* growing pending sequences, and a redo() has just brought the finished
\* triangle back from the state with the three pending points.
DocumentedTraceReached ==
    /\ handler = "redo"
    /\ saves = 4
    /\ Live(before) = [polygons |-> <<>>, current_poly |-> Triangle]
    /\ before.redo_stack = <<[polygons |-> <<Triangle>>, current_poly |-> <<>>]>>
    /\ Live(Self) = [polygons |-> <<Triangle>>, current_poly |-> <<>>]
    /\ redo_stack = <<>>
    /\ undo_stack = <<Blank,
                      [polygons |-> <<>>, current_poly |-> SubSeq(Triangle, 1, 1)],
                      [polygons |-> <<>>, current_poly |-> SubSeq(Triangle, 1, 2)],
                      [polygons |-> <<>>, current_poly |-> Triangle]>>

\* the snapshots held by the two stacks of s
stored(s) ==
    {s.undo_stack[i] : i \in 1..Len(s.undo_stack)}
        \cup {s.redo_stack[i] : i \in 1..Len(s.redo_stack)}

\* every polygon of the sequence ps has at least 3 points
all_finalized(ps) == \A i \in 1..Len(ps) : Len(ps[i]) >= 3

\* C12: stored snapshots are independent of the live state.  In every
\* reachable state no list held by a snapshot on undo_stack or redo_stack is
\* the same object as self.polygons, as a polygon of self.polygons or as
\* self.current_poly; and in the state right after on_click, on_finish or
\* clearall every snapshot that was on the undo stack when the handler was
\* entered is still there with the value it had (on_finish moves the list
\* object current_poly itself into polygons, and still no snapshot holds
\* it).  The redo snapshots are dropped by these handlers, not changed.
SnapshotsIndependent ==
    /\ \A pair \in shared :
          \/ \A a \in pair : a.in = "live"
          \/ \A a \in pair : a.in # "live"
    /\ handler \in {"on_click", "on_finish", "clearall"}
          => /\ Len(undo_stack) >= Len(before.undo_stack)
             /\ \A i \in 1..Len(before.undo_stack) :
                   undo_stack[i] = before.undo_stack[i]

\* C12 witness: on_finish has just moved a pending list of more than two
\* points into polygons while older snapshots were stored; the snapshot it
\* took holds a pending list of the same value as the new live polygon, and
\* the new live polygon is further a different value from the pending lists
\* of the older snapshots it grew from
SnapshotsIndependentReached ==
    /\ handler = "on_finish"
    /\ Len(before.current_poly) > 2
    /\ Len(before.undo_stack) > 0
    /\ last(undo_stack).current_poly = last(polygons)
    /\ last(before.undo_stack).current_poly # last(polygons)

\* C13: in every reachable state every polygon of the live shapes and every
\* polygon inside every snapshot on the undo and redo stacks has at least 3
\* points.
PolygonsHaveThreePoints ==
    /\ all_finalized(polygons)
    /\ \A snap \in stored(Self) : all_finalized(snap.polygons)

\* C13 witness: the live shapes, a snapshot on the undo stack and a snapshot
\* on the redo stack all hold a polygon, and an undo() has just run.
PolygonsHaveThreePointsReached ==
    /\ handler = "undo"
    /\ polygons # <<>>
    /\ \E i \in 1..Len(undo_stack) : undo_stack[i].polygons # <<>>
    /\ \E i \in 1..Len(redo_stack) : redo_stack[i].polygons # <<>>
    /\ all_finalized(polygons)

\* C14: on_move changes the cursor and nothing of shapes, pending, undo stack
\* and redo stack; on_click, on_finish, clearall, undo and redo never change
\* the cursor; no snapshot holds a cursor.
CursorOutsideHistory ==
    /\ handler = "on_move"
           => /\ polygons = before.polygons
              /\ current_poly = before.current_poly
              /\ undo_stack = before.undo_stack
              /\ redo_stack = before.redo_stack
    /\ handler \in {"on_click", "on_finish", "clearall", "undo", "redo"}
           => mouse_pos = before.mouse_pos
    /\ \A snap \in stored(Self) : DOMAIN snap = {"polygons", "current_poly"}

\* C14 witness: a pointer move has just changed the cursor while both stacks
\* held snapshots and points were pending.
CursorOutsideHistoryReached ==
    /\ handler = "on_move"
    /\ mouse_pos # before.mouse_pos
    /\ current_poly # <<>>
    /\ undo_stack # <<>>
    /\ redo_stack # <<>>
    /\ redo_stack = before.redo_stack

\* the items of the canvas drawn in the colour c, in drawing order
items_of(c) == SelectSeq(canvas, LAMBDA it : it.fill = c)

\* the segments a canvas item draws: a line joins each point of coords to the
\* next one; any other kind of item also joins the last point to the first
segments(it) ==
    {<<it.coords[i], it.coords[i + 1]>> : i \in 1..(Len(it.coords) - 1)}
        \cup (IF it.item = "line" THEN {}
              ELSE {<<it.coords[Len(it.coords)], it.coords[1]>>})

\* C15: the canvas is the view redraw computes from (shapes, pending,
\* cursor): it holds exactly one rubber-band segment, from the last pending
\* point to the cursor, when pending is non-empty and none when pending is
\* empty; each finished shape is one open polyline through its points in
\* drawing order, with no edge from its last point back to its first.
ViewShowsOnePreview ==
    /\ canvas = redraw(Self).canvas
    /\ LET previews == items_of("gray") IN
       IF current_poly # <<>>
       THEN /\ Len(previews) = 1
            /\ previews[1].item = "line"
            /\ previews[1].coords = <<current_poly[Len(current_poly)], mouse_pos>>
       ELSE previews = <<>>
    /\ LET shapes == items_of("black") IN
       /\ Len(shapes) = Len(polygons)
       /\ \A i \in 1..Len(polygons) :
              /\ shapes[i].item = "line"
              /\ shapes[i].coords = polygons[i]
              /\ Cardinality(segments(shapes[i])) <= Len(polygons[i]) - 1

\* C15 witness: a finished triangle, two pending points and a moved cursor
\* are on the canvas together, the rubber band running to the cursor.
ViewShowsOnePreviewReached ==
    /\ polygons # <<>>
    /\ Len(current_poly) >= 2
    /\ current_poly[1] # current_poly[Len(current_poly)]
    /\ mouse_pos = <<15, 15>>
    /\ handler = "on_move"
    /\ Len(canvas) = Len(polygons) + 2
    /\ canvas[Len(canvas)].coords = <<current_poly[Len(current_poly)], <<15, 15>>>>

RECURSIVE reversed(_)
\* the sequence l from its last element to its first
reversed(l) == IF l = <<>> THEN <<>> ELSE <<last(l)>> \o reversed(popped(l))

\* the timeline of s: the undo stack from bottom to top, the live (shapes,
\* pending), then the redo stack from top to bottom
timeline(s) == s.undo_stack \o <<Live(s)>> \o reversed(s.redo_stack)

\* s and r agree on shapes, pending and both stacks
same_history(s, r) ==
    /\ Live(s) = Live(r)
    /\ s.undo_stack = r.undo_stack
    /\ s.redo_stack = r.redo_stack

\* C16: every undo() and every redo() leaves the timeline (undo stack bottom
\* to top, live state, redo stack top to bottom) unchanged, so the sum of the
\* two stack lengths is preserved; and in every reachable state with a
\* non-empty redo stack, redo() followed by undo() is the identity on shapes,
\* pending and both stacks.
UndoRedoKeepTimeline ==
    /\ handler \in {"undo", "redo"}
           => /\ timeline(Self) = timeline(before)
              /\ Len(undo_stack) + Len(redo_stack)
                     = Len(before.undo_stack) + Len(before.redo_stack)
    /\ timeline(undo(Self)) = timeline(Self)
    /\ timeline(redo(Self)) = timeline(Self)
    /\ redo_stack # <<>> => same_history(undo(redo(Self)), Self)

\* C16 witness: a redo() has just moved one step along a timeline of at least
\* four entries, with entries left on both sides, and an undo() from here
\* leads back to where it started.
UndoRedoKeepTimelineReached ==
    /\ handler = "redo"
    /\ before.redo_stack # <<>>
    /\ Len(timeline(Self)) >= 4
    /\ undo_stack # before.undo_stack
    /\ redo_stack # <<>>
    /\ Len(undo_stack) >= 2
    /\ timeline(Self) = timeline(before)
    /\ same_history(undo(Self), before)

\* C17: if the undo stack is empty the live state is the blank sketch; if it
\* is not, its bottom snapshot is the blank sketch; and the program starts
\* with both stacks empty.
HistoryStartsBlank ==
    /\ undo_stack = <<>> => Live(Self) = Blank
    /\ undo_stack # <<>> => undo_stack[1] = Blank
    /\ handler = "init" => undo_stack = <<>> /\ redo_stack = <<>>

\* C17 witness: the sketch is not blank, and the bottom of a three-deep undo
\* stack is the blank sketch, after a redo().
HistoryStartsBlankReached ==
    /\ handler = "redo"
    /\ Live(Self) # Blank
    /\ Len(undo_stack) = 3
    /\ undo_stack[1] = Blank
    /\ undo_stack[2] # Blank

RECURSIVE undo_times(_, _)
\* the fields after n successive calls of undo() from s
undo_times(s, n) == IF n = 0 THEN s ELSE undo(undo_times(s, n - 1))

\* C18: from every reachable state, repeated undo() with nothing in between
\* shrinks the undo stack by one on each of the first len(undo_stack) calls,
\* has then reached the blank sketch with an empty undo stack, and not
\* earlier an empty undo stack; every further undo() changes nothing.
UndoReachesBlank ==
    LET n == Len(undo_stack)
        final == undo_times(Self, n)
    IN  /\ \A k \in 1..n :
               /\ undo_times(Self, k - 1).undo_stack # <<>>
               /\ Len(undo_times(Self, k).undo_stack)
                      = Len(undo_times(Self, k - 1).undo_stack) - 1
        /\ final.undo_stack = <<>>
        /\ Live(final) = Blank
        /\ undo(final) = final
        /\ undo(undo(final)) = final

\* C18 witness: undo() has just emptied the undo stack of a four-deep history:
\* the sketch is blank, all four later states wait on the redo stack, and a
\* further undo() changes nothing.
UndoReachesBlankReached ==
    /\ handler = "undo"
    /\ before.undo_stack # <<>>
    /\ undo_stack = <<>>
    /\ Live(Self) = Blank
    /\ Len(redo_stack) = 4
    /\ redo_stack[1].polygons # <<>>
    /\ undo(Self) = Self

====
